---- MODULE Spec2Model ----
(***************************************************************************)
(* A model of src/src/LegendRenderer/LegendRenderer.ts: the legend layout  *)
(* engine (render, renderLegend, renderLegendItem, renderImages), the icon *)
(* synthesizer's promise (getRuleIcon) and the label fitter                *)
(* (shortenLabels).                                                        *)
(*                                                                         *)
(* Conventions.  An optional JavaScript value is a sequence of length 0    *)
(* (undefined / property absent) or 1 (the value).  A text is a TLA+       *)
(* string.  The frame (the svg element) is a record with its attributes    *)
(* and the sequence of its children in document order.                     *)
(***************************************************************************)
EXTENDS Integers, Sequences, FiniteSets, TLC

VARIABLES
  config,   \* this.config: the LegendsConfiguration given to the constructor
  target,   \* the frames attached under the target element, in document order
  calls     \* the render() calls: the locals and the position of each

vars == <<config, target, calls>>

-----------------------------------------------------------------------------
(* Optional values *)

None == <<>>
Some(x) == <<x>>
IsSome(o) == Len(o) = 1
Val(o) == o[1]

\* JavaScript truthiness of an optional number: undefined and 0 are falsy.
Truthy(o) == IsSome(o) /\ Val(o) # 0

\* a > o for an optional number o: a comparison with undefined is false.
GreaterThan(a, o) == IsSome(o) /\ a > Val(o)

Max(a, b) == IF a > b THEN a ELSE b

\* String.prototype.substring(0, n): a negative n counts as 0.
Substring0(str, n) == SubSeq(str, 1, Max(n, 0))

-----------------------------------------------------------------------------
(* Program constants *)

iconWidth == 45
iconHeight == 30
iconSize == <<iconWidth, iconHeight>>
itemSpacing == 5
titleHeight == 20
titleBaseline == 15
labelBaseline == 20
labelGap == 5
columnTop == 5
legendSpacing == 20
titleSpacing == 5
svgClass == "geostyler-legend-renderer"
Ellipsis == "..."

-----------------------------------------------------------------------------
(* Bounds and input domains *)

\* The number of placement units of one configuration: every legend, every
\* item, every style, every rule and every remote legend counts for one.
MaxUnits == 4

\* The width of one character of a label, and the sizes a decoded remote
\* image may have: what the host's text measurement and image decoder report.
CharWidth == 10
ImageHeights == {10, 40}
ImageWidth == 60

LegendTitles == {"", "A"}
ItemTitles == {"A"}
RemoteTitles == {"", "T"}
Heights == {None, Some(55), Some(100)}
Widths == {None, Some(55)}
Overflows == {None, Some("auto"), Some("group")}
Size == <<200, 100>>

Rule(name) == [name |-> name, symbolizers |-> <<[kind |-> "Fill"]>>]

\* LegendItemConfiguration: a title and an optional rule.
Items == [title : ItemTitles, rule : {None} \cup {Some(Rule(n)) : n \in ItemTitles}]

RECURSIVE SeqsUpTo(_, _)
SeqsUpTo(S, n) ==
  IF n <= 0 THEN {<<>>}
  ELSE LET shorter == SeqsUpTo(S, n - 1)
       IN  shorter \cup {Append(s, x) : s \in {t \in shorter : Len(t) = n - 1}, x \in S}

\* An entry of config.configs as render() uses it: a LegendConfiguration.
LegendEntry(title, items) == [title |-> title, items |-> Some(items), rule |-> None]
\* An entry of config.configs as the interface declares it: a
\* LegendItemConfiguration, which has no items.
ItemEntry(item) == [title |-> item.title, items |-> None, rule |-> item.rule]

EntryUnits(e) == 1 + (IF IsSome(e.items) THEN Len(Val(e.items)) ELSE 0)
StyleUnits(s) == 1 + Len(s.rules)

RECURSIVE SumUnits(_)
SumUnits(s) == IF s = <<>> THEN 0 ELSE s[1] + SumUnits(Tail(s))

LegendEntries(n) ==
  {LegendEntry(t, its) : t \in LegendTitles, its \in SeqsUpTo(Items, n - 1)}
ItemEntries == {ItemEntry(it) : it \in Items}
Styles(n) ==
  {[name |-> t, rules |-> rs] : t \in LegendTitles,
                                rs \in SeqsUpTo({Rule(nm) : nm \in ItemTitles}, n - 1)}

\* The lists over S of at most n units in all.
RECURSIVE EntryLists(_, _)
EntryLists(S, n) ==
  {<<>>} \cup UNION {{<<e>> \o rest : rest \in EntryLists(S, n - EntryUnits(e))} :
                     e \in {x \in S : EntryUnits(x) <= n}}
RECURSIVE StyleLists(_)
StyleLists(n) ==
  {<<>>} \cup UNION {{<<s>> \o rest : rest \in StyleLists(n - StyleUnits(s))} :
                     s \in {x \in Styles(n) : StyleUnits(x) <= n}}

\* config.configs holds entries of one shape: all as declared, or all as used.
ConfigLists(n) == EntryLists(LegendEntries(n), n) \cup EntryLists(ItemEntries, n)

RemoteLegends == [url : {"u"}, title : RemoteTitles]

ListUnits(cs) == SumUnits([i \in 1..Len(cs) |-> EntryUnits(cs[i])])
StyleListUnits(ss) == SumUnits([i \in 1..Len(ss) |-> StyleUnits(ss[i])])

\* An absent list and an empty list behave alike: the absent one stands for both.
Opt(list) == IF list = <<>> THEN None ELSE Some(list)

\* The lists of one configuration: at most MaxUnits units in all.
Inputs ==
  UNION {UNION {{[configs |-> cs, styles |-> ss, remoteLegends |-> rl] :
                   rl \in SeqsUpTo(RemoteLegends,
                                   MaxUnits - ListUnits(cs) - StyleListUnits(ss))} :
                ss \in StyleLists(MaxUnits - ListUnits(cs))} :
         cs \in ConfigLists(MaxUnits)}

\* Pagination needs both limits: maxColumnHeight is only set with maxColumnWidth.
Layouts ==
  {l \in [maxColumnHeight : Heights, maxColumnWidth : Widths, overflow : Overflows,
          hideRect : BOOLEAN] :
     IsSome(l.maxColumnHeight) => IsSome(l.maxColumnWidth)}

Configurations ==
  {[configs |-> Opt(in.configs), styles |-> Opt(in.styles),
    remoteLegends |-> Opt(in.remoteLegends), size |-> Size,
    maxColumnHeight |-> l.maxColumnHeight, maxColumnWidth |-> l.maxColumnWidth,
    overflow |-> l.overflow, hideRect |-> l.hideRect] : in \in Inputs, l \in Layouts}

-----------------------------------------------------------------------------
(* The frame: the svg element and what is drawn into it *)

Elem(tag, class, text, x, y, unit, w, h, href, children) ==
  [tag |-> tag, class |-> class, text |-> text, x |-> x, y |-> y, unit |-> unit,
   w |-> w, h |-> h, href |-> href, children |-> children]

Group(class, title) == Elem("g", class, title, 0, 0, "", 0, 0, "", <<>>)
TextElem(class, text, x, y, unit) == Elem("text", class, text, x, y, unit, 0, 0, "", <<>>)
RectElem(x, y, w, h) == Elem("rect", "", "", x, y, "px", w, h, "", <<>>)
ImageElem(x, y, w, h, href) == Elem("image", "", "", x, y, "px", w, h, href, <<>>)

NoSvg == [class |-> "", width |-> 0, height |-> 0, viewBox |-> <<0, 0, 0, 0>>,
          xmlns |-> FALSE, children |-> <<>>]

\* selection.append(name) on the frame, and on the frame's child k.
AppendChild(svg, e) == [svg EXCEPT !.children = Append(@, e)]
AppendTo(svg, k, e) == [svg EXCEPT !.children[k].children = Append(@, e)]

-----------------------------------------------------------------------------
(* Promises *)

Pending == [state |-> "pending", value |-> None]
\* resolve(v) and reject(v) of the Promise constructor: the first call settles
\* the promise, a later call changes nothing.
Settle(p, state, value) ==
  IF p.state = "pending" THEN [state |-> state, value |-> value] ELSE p

-----------------------------------------------------------------------------
(* One render() call *)

IdleIcon == [pc |-> "idle", tr |-> None, errors |-> <<>>, promise |-> Pending]

IdleCall ==
  [pc |-> "idle", legends |-> <<>>, svg |-> NoSvg, position |-> <<0, 0>>,
   i |-> 0, item |-> 0, container |-> 0, icon |-> IdleIcon, r |-> 0,
   node |-> 0, width |-> 0, adapted |-> FALSE, error |-> None,
   \* What happened, for the record: how each icon's promise settled, the
   \* cursor and the number of children at the entry of renderImages, and what
   \* each remote legend's fetch gave.
   icons |-> <<>>, entry |-> [position |-> <<0, 0>>, children |-> 0], log |-> <<>>]

\* extractConfigFromStyle (lines 66-81)
extractConfigFromStyle(style) ==
  [title |-> IF style.name # "" THEN style.name ELSE "",
   items |-> Some([k \in 1..Len(style.rules) |->
                     [title |-> style.rules[k].name, rule |-> Some(style.rules[k])]]),
   rule |-> None]

\* render, lines 368-374: the style-derived legends, then the configured
\* entries unshifted in front of them.
BuildLegendsPushed(cfg) ==
  LET fromStyles == IF IsSome(cfg.styles)
                    THEN [k \in 1..Len(Val(cfg.styles)) |->
                            extractConfigFromStyle(Val(cfg.styles)[k])]
                    ELSE <<>>
  IN  IF IsSome(cfg.configs) THEN fromStyles \o Val(cfg.configs) ELSE fromStyles
BuildLegends(cfg) ==
  LET fromStyles == IF IsSome(cfg.styles)
                    THEN [k \in 1..Len(Val(cfg.styles)) |->
                            extractConfigFromStyle(Val(cfg.styles)[k])]
                    ELSE <<>>
  IN  IF IsSome(cfg.configs) THEN Val(cfg.configs) \o fromStyles ELSE fromStyles

\* parent.select('.geostyler-legend-renderer').remove(): the first such frame.
RemoveNone(seq) == seq
RemoveFirst(seq) == IF seq = <<>> THEN <<>> ELSE Tail(seq)

NewSvg(cfg) ==
  [class |-> svgClass, width |-> cfg.size[1], height |-> cfg.size[2],
   viewBox |-> <<0, 0, cfg.size[1], cfg.size[2]>>, xmlns |-> FALSE, children |-> <<>>]

\* render, lines 361-389: up to the first renderLegend.
RenderBegin(cfg) ==
  [IdleCall EXCEPT !.pc = "legends", !.legends = BuildLegends(cfg),
                   !.svg = NewSvg(cfg), !.position = <<0, 0>>, !.i = 1]

\* renderLegend, lines 262-268: the column break before a legend.
BreakBeforeAlways(cfg, pos) == cfg.overflow # Some("auto")
BreakBefore(cfg, pos) == cfg.overflow # Some("auto") /\ pos[1] # 0

LegendHeight(legend) == Len(Val(legend.items)) * (iconHeight + itemSpacing) + titleHeight

PositionBeforeLegend(cfg, legend, pos) ==
  IF BreakBefore(cfg, pos) /\ GreaterThan(LegendHeight(legend) + pos[2], cfg.maxColumnHeight)
  THEN <<pos[1] + Val(cfg.maxColumnWidth), 0>>
  ELSE pos

TitleElem(title, pos) ==
  IF pos[2] = 0 THEN TextElem("legend-title", title, pos[1], 1, "em")
  ELSE TextElem("legend-title", title, pos[1], pos[2] + titleBaseline, "px")

\* renderLegend, lines 256-282, for a legend that has items: the container,
\* the column break, the title; the items follow one by one.
RenderLegendSync(cfg, st) ==
  LET legend == st.legends[st.i]
      svg1 == AppendChild(st.svg, Group("", ""))
      k == Len(svg1.children)
      pos1 == PositionBeforeLegend(cfg, legend, st.position)
  IN  IF legend.title # ""
      THEN [st EXCEPT !.svg = AppendTo(svg1, k, TitleElem(legend.title, pos1)),
                      !.position = <<pos1[1], pos1[2] + titleHeight>>,
                      !.item = 1, !.pc = "items"]
      ELSE [st EXCEPT !.svg = svg1, !.position = pos1, !.item = 1, !.pc = "items"]

\* renderLegend for an entry without items: config.items.length (line 263) or
\* config.items.reduce (line 279) throws a TypeError, which rejects render().
RenderLegendThrows(cfg, st) ==
  LET legend == st.legends[st.i]
      svg1 == AppendChild(st.svg, Group("", ""))
      k == Len(svg1.children)
  IN  IF BreakBefore(cfg, st.position)
      THEN [st EXCEPT !.svg = svg1, !.pc = "rejected", !.error = Some("TypeError")]
      ELSE IF legend.title # ""
      THEN [st EXCEPT !.svg = AppendTo(svg1, k, TitleElem(legend.title, st.position)),
                      !.position = <<st.position[1], st.position[2] + titleHeight>>,
                      !.pc = "rejected", !.error = Some("TypeError")]
      ELSE [st EXCEPT !.svg = svg1, !.pc = "rejected", !.error = Some("TypeError")]

renderLegend(cfg, st) ==
  IF IsSome(st.legends[st.i].items) THEN RenderLegendSync(cfg, st)
  ELSE RenderLegendThrows(cfg, st)

-----------------------------------------------------------------------------
(* renderLegendItem and getRuleIcon *)

\* What the style translator and the rasterizer do for one rule: writeStyle
\* rejects, or it returns errors (absent: the default []) and an output whose
\* drawing and export (lines 231-243) throws or not.
TranslatorResults ==
  {tr \in [rejects : BOOLEAN, errors : {None, Some(<<"e1", "e2">>)}, throws : BOOLEAN] :
     tr.rejects => (tr.errors = None /\ ~tr.throws)}

DataUri == "data:image/png"

CurrentItem(st) == Val(st.legends[st.i].items)[st.item]

\* renderLegendItem, lines 101-105: the item's group, and getRuleIcon up to
\* its await of writeStyle; an item without a rule returns undefined.
renderLegendItemGroup(st, tr) ==
  LET item == CurrentItem(st)
      svg1 == AppendChild(st.svg, Group("legend-item", item.title))
  IN  IF IsSome(item.rule)
      THEN [st EXCEPT !.svg = svg1, !.container = Len(svg1.children), !.pc = "icon",
                      !.icon = [pc |-> "await", tr |-> Some(tr), errors |-> <<>>,
                                promise |-> Pending]]
      ELSE [st EXCEPT !.svg = svg1, !.item = @ + 1]
renderLegendItem(st, tr) ==
  LET item == CurrentItem(st)
      svg1 == AppendChild(st.svg, Group("legend-item", item.title))
  IN  IF IsSome(item.rule)
      THEN [st EXCEPT !.svg = svg1, !.container = Len(svg1.children), !.pc = "icon",
                      !.icon = [pc |-> "await", tr |-> Some(tr), errors |-> <<>>,
                                promise |-> Pending]]
      ELSE [st EXCEPT !.item = @ + 1]

\* getRuleIcon, line 227: the await of writeStyle.
IconAwait(ic) ==
  LET tr == Val(ic.tr)
  IN  IF tr.rejects THEN [ic EXCEPT !.pc = "catch"]
      ELSE [ic EXCEPT !.pc = "check",
                      !.errors = IF IsSome(tr.errors) THEN Val(tr.errors) ELSE <<>>]

\* lines 228-230: reject(errors[0]) does not leave the executor.
IconCheckLast(ic) ==
  IF Len(ic.errors) > 0
  THEN [ic EXCEPT !.pc = "draw",
                  !.promise = Settle(@, "rejected", Some(ic.errors[Len(ic.errors)]))]
  ELSE [ic EXCEPT !.pc = "draw"]
IconCheck(ic) ==
  IF Len(ic.errors) > 0
  THEN [ic EXCEPT !.pc = "draw", !.promise = Settle(@, "rejected", Some(ic.errors[1]))]
  ELSE [ic EXCEPT !.pc = "draw"]

\* lines 231-242: the drawing.
IconDraw(ic) ==
  IF Val(ic.tr).throws THEN [ic EXCEPT !.pc = "catch"] ELSE [ic EXCEPT !.pc = "resolve"]

\* line 243: resolve(canvas.toDataURL('image/png')).
IconResolve(ic) ==
  [ic EXCEPT !.pc = "done", !.promise = Settle(@, "fulfilled", Some(DataUri))]

\* lines 244-246: reject() without a payload.
IconCatch(ic) ==
  [ic EXCEPT !.pc = "done", !.promise = Settle(@, "rejected", None)]

IconStep(ic) ==
  CASE ic.pc = "await" -> IconAwait(ic)
    [] ic.pc = "check" -> IconCheck(ic)
    [] ic.pc = "draw" -> IconDraw(ic)
    [] ic.pc = "resolve" -> IconResolve(ic)
    [] ic.pc = "catch" -> IconCatch(ic)

\* lines 126-130: the cursor after an item, with the column break after it.
BreakAfterUnset(cfg, y) ==
  /\ IsSome(cfg.maxColumnWidth)
  /\ ~IsSome(cfg.maxColumnHeight) \/ y + iconHeight + itemSpacing >= Val(cfg.maxColumnHeight)
BreakAfterBare(cfg, y) ==
  Truthy(cfg.maxColumnHeight) /\ y >= Val(cfg.maxColumnHeight)
BreakAfter(cfg, y) ==
  Truthy(cfg.maxColumnHeight) /\ y + iconHeight + itemSpacing >= Val(cfg.maxColumnHeight)

PositionAfterItemNoReset(cfg, pos) ==
  LET y == pos[2] + iconHeight + itemSpacing
  IN  IF BreakAfter(cfg, y) THEN <<pos[1] + Val(cfg.maxColumnWidth), y>>
      ELSE <<pos[1], y>>
PositionAfterItem(cfg, pos) ==
  LET y == pos[2] + iconHeight + itemSpacing
  IN  IF BreakAfter(cfg, y) THEN <<pos[1] + Val(cfg.maxColumnWidth), columnTop>>
      ELSE <<pos[1], y>>

\* lines 106-131: the then-callback of renderLegendItem.
ItemDrawn(cfg, st) ==
  LET pos == st.position
      k == st.container
      uri == Val(st.icon.promise.value)
      svg1 == IF ~cfg.hideRect
              THEN AppendTo(st.svg, k, RectElem(pos[1] + 1, pos[2], iconWidth, iconHeight))
              ELSE st.svg
      svg2 == AppendTo(svg1, k, ImageElem(pos[1] + 1, pos[2], iconWidth, iconHeight, uri))
      svg3 == AppendTo(svg2, k, TextElem("", CurrentItem(st).title,
                                         pos[1] + iconWidth + labelGap, pos[2] + labelBaseline, "px"))
  IN  [st EXCEPT !.svg = svg3, !.position = PositionAfterItem(cfg, pos),
                 !.item = @ + 1, !.pc = "items", !.icon = IdleIcon,
                 !.icons = Append(@, "fulfilled")]

\* lines 132-134: the catch-callback of renderLegendItem.
ItemAdvanced(cfg, st) ==
  [st EXCEPT !.position = PositionAfterItem(cfg, st.position),
             !.item = @ + 1, !.pc = "items", !.icon = IdleIcon,
             !.icons = Append(@, "rejected")]
ItemRethrown(cfg, st) ==
  [st EXCEPT !.pc = "rejected", !.error = Some("icon"), !.icon = IdleIcon,
             !.icons = Append(@, "rejected")]
ItemAbandonsLegend(cfg, st) ==
  [st EXCEPT !.item = Len(Val(st.legends[st.i].items)) + 1, !.pc = "items",
             !.icon = IdleIcon, !.icons = Append(@, "rejected")]
ItemSkipped(cfg, st) ==
  [st EXCEPT !.item = @ + 1, !.pc = "items", !.icon = IdleIcon,
             !.icons = Append(@, "rejected")]

-----------------------------------------------------------------------------
(* renderImages *)

\* What fetching and decoding one remote legend does: a failure in fetch, in
\* response.blob(), in the conversion or in img.decode(), or an image.
ImageOutcomes ==
  [ok : {FALSE}, stage : {"fetch", "blob", "read", "decode"}, height : {0}, width : {0}]
    \cup [ok : {TRUE}, stage : {"done"}, height : ImageHeights, width : {ImageWidth}]

BreakBeforeImageBare(cfg, pos, height) ==
  /\ cfg.overflow = Some("auto")
  /\ GreaterThan(height + pos[2], cfg.maxColumnHeight)
BreakBeforeImage(cfg, pos, height) ==
  /\ cfg.overflow = Some("auto")
  /\ GreaterThan(height + legendSpacing + titleSpacing + pos[2], cfg.maxColumnHeight)

\* lines 323-347: one decoded image is placed.
PlaceImage(cfg, svg, pos, ref, out) ==
  LET pos1 == IF BreakBeforeImage(cfg, pos, out.height)
              THEN <<pos[1] + Val(cfg.maxColumnWidth), 0>> ELSE pos
      container == AppendChild(svg, Group("", ""))
      pos2 == IF ref.title # "" THEN <<pos1[1], pos1[2] + legendSpacing>> ELSE pos1
      svg2 == IF ref.title # ""
              THEN AppendTo(container, Len(container.children),
                            TextElem("legend-title", ref.title, pos2[1], pos2[2], "px"))
              ELSE svg
      pos3 == IF ref.title # "" THEN <<pos2[1], pos2[2] + titleSpacing>> ELSE pos2
      svg3 == AppendChild(svg2, Elem("svg:image", "", "", pos3[1], pos3[2], "px",
                                     out.width, out.height, "base64", <<>>))
  IN  [svg |-> svg3, position |-> <<pos3[1], pos3[2] + out.height>>]

LogEntry(ref, out) == [title |-> ref.title, ok |-> out.ok, height |-> out.height,
                       width |-> out.width]

\* lines 297-352: one turn of the loop of renderImages.
ImageFailureAborts(cfg, st, out) ==
  IF out.ok
  THEN LET placed == PlaceImage(cfg, st.svg, st.position, Val(cfg.remoteLegends)[st.r], out)
       IN  [st EXCEPT !.svg = placed.svg, !.position = placed.position, !.r = @ + 1,
                      !.log = Append(@, LogEntry(Val(cfg.remoteLegends)[st.r], out))]
  ELSE [st EXCEPT !.r = Len(Val(cfg.remoteLegends)) + 1,
                  !.log = Append(@, LogEntry(Val(cfg.remoteLegends)[st.r], out))]
renderImage(cfg, st, out) ==
  IF out.ok
  THEN LET placed == PlaceImage(cfg, st.svg, st.position, Val(cfg.remoteLegends)[st.r], out)
       IN  [st EXCEPT !.svg = placed.svg, !.position = placed.position, !.r = @ + 1,
                      !.log = Append(@, LogEntry(Val(cfg.remoteLegends)[st.r], out))]
  ELSE [st EXCEPT !.r = @ + 1,
                  !.log = Append(@, LogEntry(Val(cfg.remoteLegends)[st.r], out))]

-----------------------------------------------------------------------------
(* shortenLabels *)

\* svg.selectAll('g.legend-item'): the indices of the item groups.
ItemNodes(svg) ==
  LET idx == {k \in 1..Len(svg.children) : svg.children[k].class = "legend-item"}
      RECURSIVE Sorted(_)
      Sorted(S) == IF S = {} THEN <<>>
                   ELSE LET m == CHOOSE x \in S : \A y \in S : x <= y
                        IN  <<m>> \o Sorted(S \ {m})
  IN  Sorted(idx)

\* node.select('text'): the index of the group's first text child (0: none).
TextChild(group) ==
  LET idx == {j \in 1..Len(group.children) : group.children[j].tag = "text"}
  IN  IF idx = {} THEN 0 ELSE CHOOSE j \in idx : \A j2 \in idx : j <= j2

LabelOf(group) == group.children[TextChild(group)].text

\* elem.getBoundingClientRect().width of an item group: the box around the
\* icon (x + 1, 45 wide) and the label (from x + 50); 0 for an empty group.
BoundingWidth(group) ==
  IF group.children = <<>> THEN 0
  ELSE IF TextChild(group) = 0 \/ LabelOf(group) = "" THEN iconWidth
  ELSE iconWidth + labelGap - 1 + CharWidth * Len(LabelOf(group))

\* The same measurement for a frame that may have left the document: a frame
\* that a later render() removed from the target is not laid out, and its
\* elements measure 0.
Measured(attached, group) == IF attached THEN BoundingWidth(group) ELSE 0

SetLabel(svg, k, str) == [svg EXCEPT !.children[k].children[TextChild(svg.children[k])].text = str]

\* lines 151-153: the first measurement of a node.
ShortenMeasure(st, attached) ==
  [st EXCEPT !.width = Measured(attached, st.svg.children[ItemNodes(st.svg)[st.node]]),
             !.adapted = FALSE, !.pc = "fit"]

\* lines 154-160: one turn of the loop.
ShortenTurn(st, attached) ==
  LET k == ItemNodes(st.svg)[st.node]
      str == LabelOf(st.svg.children[k])
      svg1 == SetLabel(st.svg, k, Substring0(str, Len(str) - 1))
  IN  [st EXCEPT !.svg = svg1, !.width = Measured(attached, svg1.children[k]),
                 !.adapted = TRUE]

\* lines 161-165: the ellipsis.
ShortenEndAppends(st) ==
  LET k == ItemNodes(st.svg)[st.node]
      str == LabelOf(st.svg.children[k])
  IN  IF st.adapted
      THEN [st EXCEPT !.svg = SetLabel(st.svg, k, str \o Ellipsis),
                      !.node = @ + 1, !.pc = "shorten", !.adapted = FALSE, !.width = 0]
      ELSE [st EXCEPT !.node = @ + 1, !.pc = "shorten", !.width = 0]
ShortenEndAlways(st) ==
  LET k == ItemNodes(st.svg)[st.node]
      group == st.svg.children[k]
  IN  IF TextChild(group) # 0
      THEN [st EXCEPT !.svg = SetLabel(st.svg, k,
                                       Substring0(LabelOf(group), Len(LabelOf(group)) - 3)
                                         \o Ellipsis),
                      !.node = @ + 1, !.pc = "shorten", !.adapted = FALSE, !.width = 0]
      ELSE [st EXCEPT !.node = @ + 1, !.pc = "shorten", !.width = 0]
ShortenEnd(st) ==
  LET k == ItemNodes(st.svg)[st.node]
      str == LabelOf(st.svg.children[k])
  IN  IF st.adapted
      THEN [st EXCEPT !.svg = SetLabel(st.svg, k, Substring0(str, Len(str) - 3) \o Ellipsis),
                      !.node = @ + 1, !.pc = "shorten", !.adapted = FALSE, !.width = 0]
      ELSE [st EXCEPT !.node = @ + 1, !.pc = "shorten", !.width = 0]

\* render, lines 398-403: the frame is fitted to the cursor.
KeepsSizeByWidth(cfg) == Truthy(cfg.maxColumnWidth)
KeepsSize(cfg) == Truthy(cfg.maxColumnHeight)
Finalize(cfg, st) ==
  IF ~KeepsSize(cfg)
  THEN [st EXCEPT !.svg.viewBox = <<0, 0, cfg.size[1], st.position[2]>>,
                  !.svg.height = st.position[2], !.pc = "resolved"]
  ELSE [st EXCEPT !.pc = "resolved"]

-----------------------------------------------------------------------------
(* The actions of one render() call *)

Calls == {1, 2}

Init ==
  /\ config \in Configurations
  /\ target = <<>>
  /\ calls = [c \in Calls |-> IdleCall]

\* The frame of call c is under the target.
Attached(c) == \E k \in 1..Len(target) : target[k] = c

BecomesShared(c, st) ==
  /\ calls' = [d \in Calls |-> IF d = c THEN st
                                ELSE [calls[d] EXCEPT !.position = st.position]]
  /\ UNCHANGED <<config, target>>
Becomes(c, st) == calls' = [calls EXCEPT ![c] = st] /\ UNCHANGED <<config, target>>

\* render(target) is called: lines 361-389.
Render(c) ==
  /\ calls[c].pc = "idle"
  /\ calls' = [calls EXCEPT ![c] = RenderBegin(config)]
  /\ target' = Append(RemoveFirst(target), c)
  /\ UNCHANGED config

\* line 391: the next legend.
RenderLegend(c) ==
  /\ calls[c].pc = "legends" /\ calls[c].i <= Len(calls[c].legends)
  /\ Becomes(c, renderLegend(config, calls[c]))

\* line 280: the next item of the legend.
RenderLegendItem(c) ==
  /\ calls[c].pc = "items" /\ calls[c].item <= Len(Val(calls[c].legends[calls[c].i].items))
  /\ \E tr \in TranslatorResults : Becomes(c, renderLegendItem(calls[c], tr))

\* getRuleIcon's executor runs on.
GetRuleIcon(c) ==
  /\ calls[c].pc = "icon" /\ calls[c].icon.pc \notin {"idle", "done"}
  /\ Becomes(c, [calls[c] EXCEPT !.icon = IconStep(@)])

\* The icon's promise has settled: the then-callback or the catch-callback.
ItemThen(c) ==
  /\ calls[c].pc = "icon" /\ calls[c].icon.pc = "done"
  /\ calls[c].icon.promise.state = "fulfilled"
  /\ Becomes(c, ItemDrawn(config, calls[c]))

ItemCatch(c) ==
  /\ calls[c].pc = "icon" /\ calls[c].icon.pc = "done"
  /\ calls[c].icon.promise.state = "rejected"
  /\ Becomes(c, ItemSkipped(config, calls[c]))

\* lines 279-281 and 390-392: the chain of a legend has ended.
LegendDone(c) ==
  /\ calls[c].pc = "items" /\ calls[c].item > Len(Val(calls[c].legends[calls[c].i].items))
  /\ Becomes(c, [calls[c] EXCEPT !.i = @ + 1, !.item = 0, !.pc = "legends"])

\* lines 393-397: after the legends, the remote legends if any.
LegendsDone(c) ==
  /\ calls[c].pc = "legends" /\ calls[c].i > Len(calls[c].legends)
  /\ Becomes(c, IF IsSome(config.remoteLegends)
                THEN [calls[c] EXCEPT !.pc = "images", !.r = 1,
                                      !.entry = [position |-> calls[c].position,
                                                 children |-> Len(calls[c].svg.children)]]
                ELSE [calls[c] EXCEPT !.pc = "shorten", !.node = 1])

RenderImages(c) ==
  /\ calls[c].pc = "images" /\ calls[c].r <= Len(Val(config.remoteLegends))
  /\ \E out \in ImageOutcomes : Becomes(c, renderImage(config, calls[c], out))

\* line 353, and the return to render.
ImagesDone(c) ==
  /\ calls[c].pc = "images" /\ calls[c].r > Len(Val(config.remoteLegends))
  /\ Becomes(c, [calls[c] EXCEPT !.svg.xmlns = TRUE, !.pc = "shorten", !.node = 1])

\* shortenLabels: the next node is measured.
ShortenNode(c) ==
  /\ calls[c].pc = "shorten" /\ calls[c].node <= Len(ItemNodes(calls[c].svg))
  /\ Becomes(c, ShortenMeasure(calls[c], Attached(c)))

\* line 154: while (width > maxWidth).
ShortenLoop(c) ==
  /\ calls[c].pc = "fit" /\ GreaterThan(calls[c].width, config.maxColumnWidth)
  /\ Becomes(c, ShortenTurn(calls[c], Attached(c)))

ShortenExit(c) ==
  /\ calls[c].pc = "fit" /\ ~GreaterThan(calls[c].width, config.maxColumnWidth)
  /\ Becomes(c, ShortenEnd(calls[c]))

\* lines 398-403: render returns the frame.
RenderEnd(c) ==
  /\ calls[c].pc = "shorten" /\ calls[c].node > Len(ItemNodes(calls[c].svg))
  /\ Becomes(c, Finalize(config, calls[c]))

Step(c) ==
  \/ Render(c)
  \/ RenderLegend(c)
  \/ RenderLegendItem(c)
  \/ GetRuleIcon(c)
  \/ ItemThen(c)
  \/ ItemCatch(c)
  \/ LegendDone(c)
  \/ LegendsDone(c)
  \/ RenderImages(c)
  \/ ImagesDone(c)
  \/ ShortenNode(c)
  \/ ShortenLoop(c)
  \/ ShortenExit(c)
  \/ RenderEnd(c)

\* One render() call on a fresh target.
Next == Step(1)

Spec == Init /\ [][Next]_vars

\* One render() call of one legend whose labels are of many lengths, under
\* column widths that fit some of them, none of them, or not even the icon.
MaxFitItems == 2
FitLabels == {"", "A", "Ab", "Road", "Roads1"}
FitWidths == {None, Some(40), Some(70), Some(100)}

FitConfigurations ==
  {[configs |-> Some(<<LegendEntry("", items)>>), styles |-> None,
    remoteLegends |-> rl, size |-> Size, maxColumnHeight |-> None,
    maxColumnWidth |-> w, overflow |-> None, hideRect |-> hr] :
     items \in SeqsUpTo({[title |-> t, rule |-> Some(Rule(t))] : t \in FitLabels},
                        MaxFitItems),
     rl \in {None, Some(<<[url |-> "u", title |-> "T"]>>)},
     w \in FitWidths, hr \in BOOLEAN}

InitFit ==
  /\ config \in FitConfigurations
  /\ target = <<>>
  /\ calls = [c \in Calls |-> IdleCall]

SpecFit == InitFit /\ [][Next]_vars

\* Two render() calls on the same target: each runs as a chain of callbacks,
\* and between two callbacks of one call any callback of the other may run.
TwoHeights == {None, Some(100)}
TwoItems == {[title |-> "A", rule |-> Some(Rule("A"))]}
MaxTwoItems == 2

TwoConfigurations ==
  {[configs |-> Some(<<LegendEntry("A", items)>>), styles |-> None,
    remoteLegends |-> rl, size |-> Size, maxColumnHeight |-> h,
    maxColumnWidth |-> Some(55), overflow |-> Some("auto"), hideRect |-> FALSE] :
     items \in SeqsUpTo(TwoItems, MaxTwoItems),
     rl \in {None, Some(<<[url |-> "u", title |-> "T"]>>)},
     h \in TwoHeights}

InitTwo ==
  /\ config \in TwoConfigurations
  /\ target = <<>>
  /\ calls = [c \in Calls |-> IdleCall]

NextTwo == \E c \in Calls : Step(c)

SpecTwo == InitTwo /\ [][NextTwo]_vars

\* One render() call whose legend list is built from configured legends of
\* different titles and from styles whose rules have different names.
MaxListRules == 2
ListStyleNames == {"", "S"}
ListRuleNames == {"A", "Bc"}
ListTitles == {"A", "B"}
ListWidths == {Some(60)}

ListStyles ==
  {[name |-> n, rules |-> rs] :
     n \in ListStyleNames, rs \in SeqsUpTo({Rule(x) : x \in ListRuleNames}, MaxListRules)}
ListStyleLists ==
  {<<>>} \cup {<<s>> : s \in ListStyles}
    \cup {p \in ListStyles \X ListStyles :
            Len(p[1].rules) + Len(p[2].rules) <= MaxListRules}
ListEntries == {LegendEntry(t, <<>>) : t \in ListTitles}

ListConfigurations ==
  {[configs |-> Opt(cs), styles |-> Opt(ss),
    remoteLegends |-> Some(<<[url |-> "u", title |-> "T"]>>), size |-> Size,
    maxColumnHeight |-> None, maxColumnWidth |-> w, overflow |-> None,
    hideRect |-> FALSE] :
     cs \in SeqsUpTo(ListEntries, 2), ss \in ListStyleLists, w \in ListWidths}

InitList ==
  /\ config \in ListConfigurations
  /\ target = <<>>
  /\ calls = [c \in Calls |-> IdleCall]

SpecList == InitList /\ [][Next]_vars

-----------------------------------------------------------------------------
(* What the properties speak of *)

call == calls[1]

Paginated == IsSome(config.maxColumnHeight) /\ IsSome(config.maxColumnWidth)

\* The places of the frame's elements: <<k, 0>> is child k of the frame,
\* <<k, j>> is child j of that child.
Places(svg) ==
  {<<k, 0>> : k \in 1..Len(svg.children)}
    \cup UNION {{<<k, j>> : j \in 1..Len(svg.children[k].children)} :
                k \in 1..Len(svg.children)}
At(svg, p) == IF p[2] = 0 THEN svg.children[p[1]] ELSE svg.children[p[1]].children[p[2]]
Parent(svg, p) == svg.children[p[1]]

LegendTitleTexts(svg) ==
  {p \in Places(svg) : At(svg, p).tag = "text" /\ At(svg, p).class = "legend-title"}
Rects(svg) == {p \in Places(svg) : At(svg, p).tag = "rect"}
IconImages(svg) == {p \in Places(svg) : At(svg, p).tag = "image"}
RemoteImages(svg) == {p \in Places(svg) : At(svg, p).tag = "svg:image"}
ItemLabels(svg) ==
  {p \in Places(svg) : /\ p[2] # 0
                       /\ At(svg, p).tag = "text"
                       /\ Parent(svg, p).class = "legend-item"}

\* The items that have a rule, over all legends, in the order of the render.
RECURSIVE RuleItems(_)
RuleItems(legends) ==
  IF legends = <<>> THEN <<>>
  ELSE LET HasRule(it) == IsSome(it.rule)
       IN  (IF IsSome(legends[1].items) THEN SelectSeq(Val(legends[1].items), HasRule)
            ELSE <<>>) \o RuleItems(Tail(legends))

Last(seq) == seq[Len(seq)]

\* The steps of the call, read off two successive states.
LegendPlaced ==
  /\ call.pc = "legends" /\ call.i <= Len(call.legends)
  /\ calls'[1].pc = "items"
IconRejected ==
  /\ call.pc = "icon" /\ call.icon.pc = "done" /\ call.icon.promise.state = "rejected"
  /\ calls'[1] # call
ImageFetched == call.pc = "images" /\ Len(calls'[1].log) = Len(call.log) + 1

-----------------------------------------------------------------------------
(* C1 *)

C1_Configuration ==
  [configs |-> Some(<<ItemEntry([title |-> "A", rule |-> Some(Rule("A"))])>>),
   styles |-> None, remoteLegends |-> None, size |-> <<200, 100>>,
   maxColumnHeight |-> None, maxColumnWidth |-> None, overflow |-> None,
   hideRect |-> FALSE]

\* C1: for the configuration {configs: [{title: "A", rule: Fill-rule}],
\* size: [200, 100], hideRect: false}, render() does not reject, and when the
\* icon's synthesis succeeds it resolves with a frame that holds exactly one
\* legend title "A", one rectangle, one image and one item label "A", and
\* whose height is 55.
C1_FrameOfOneItem ==
  config = C1_Configuration =>
    /\ call.pc # "rejected"
    /\ (call.pc = "resolved" /\ "rejected" \notin {call.icons[k] : k \in 1..Len(call.icons)}) =>
         /\ Cardinality(LegendTitleTexts(call.svg)) = 1
         /\ \A p \in LegendTitleTexts(call.svg) : At(call.svg, p).text = "A"
         /\ Cardinality(Rects(call.svg)) = 1
         /\ Cardinality(IconImages(call.svg)) = 1
         /\ Cardinality(ItemLabels(call.svg)) = 1
         /\ \A p \in ItemLabels(call.svg) : At(call.svg, p).text = "A"
         /\ call.svg.height = 55

-----------------------------------------------------------------------------
(* C2 *)

C2_Case ==
  /\ LegendPlaced
  /\ config.overflow # Some("auto") /\ Paginated
  /\ call.i > 1
  /\ call.position[2] + Len(Val(call.legends[call.i].items)) * 35 + 20
       > Val(config.maxColumnHeight)

C2_TitleOffset == IF call.legends[call.i].title # "" THEN 20 ELSE 0

C2_Moved ==
  /\ calls'[1].position =
       <<call.position[1] + Val(config.maxColumnWidth), C2_TitleOffset>>
  /\ call.legends[call.i].title # "" =>
       LET title == Last(Last(calls'[1].svg.children).children)
       IN  title.x = call.position[1] + Val(config.maxColumnWidth) /\ title.unit = "em"

C2_Stays ==
  calls'[1].position = <<call.position[1], call.position[2] + C2_TitleOffset>>

\* C2 as stated: with overflow "group" or unset and both limits set, every
\* legend after the first whose estimated height, added to rowY, exceeds
\* maxColumnHeight is moved to (columnX + maxColumnWidth, 0) before its title
\* and items are placed.
C2_BreakBeforeEveryLegend == [][C2_Case => C2_Moved]_vars

\* C2 as amended: such a legend is moved when it is entered with columnX # 0,
\* and stays where the cursor is when it is entered in the first column.
C2_BreakBeforeLaterColumns ==
  [][C2_Case => IF call.position[1] # 0 THEN C2_Moved ELSE C2_Stays]_vars

\* A second legend that was moved to the top of the next column.
C2_Witness ==
  /\ config.overflow # Some("auto") /\ Paginated
  /\ call.pc = "items" /\ call.item = 1 /\ call.i > 1
  /\ call.position[1] # 0
  /\ call.position[2] \in {0, 20}

-----------------------------------------------------------------------------
(* C3 *)

\* C3 as stated: when the icon's promise rejects, the cursor advances as for
\* a placed item (rowY + 35, then the column break after the item).
C3_CursorAdvancesOnRejection ==
  [][IconRejected => calls'[1].position = PositionAfterItem(config, call.position)]_vars

\* C3 as amended: when the icon's promise rejects, the cursor is left as it
\* is, and the next item is placed at the failed item's position.
C3_CursorKeptOnRejection ==
  [][IconRejected => /\ calls'[1].position = call.position
                     /\ calls'[1].item = call.item + 1]_vars

\* An item was placed after an item of the same legend whose icon failed.
C3_Witness ==
  /\ Len(call.icons) >= 2
  /\ call.icons[Len(call.icons) - 1] = "rejected"
  /\ call.icons[Len(call.icons)] = "fulfilled"
  /\ call.pc = "items" /\ call.item = 3

-----------------------------------------------------------------------------
(* C4 *)

SomeIconRejected == \E k \in 1..Len(call.icons) : call.icons[k] = "rejected"

\* The item groups of the frame, one per item with a rule: an item whose icon
\* was rejected has an empty group, the others an image and a label.
C4_GroupsAsSettled ==
  LET nodes == ItemNodes(call.svg)
  IN  /\ Len(nodes) = Len(call.icons) + (IF call.pc = "icon" THEN 1 ELSE 0)
      /\ \A j \in 1..Len(call.icons) :
           LET group == call.svg.children[nodes[j]]
               tags == {group.children[m].tag : m \in 1..Len(group.children)}
           IN  IF call.icons[j] = "rejected" THEN group.children = <<>>
               ELSE {"image", "text"} \subseteq tags

C4_AllPlaced ==
  /\ Len(call.icons) = Len(RuleItems(call.legends))
  /\ IsSome(config.remoteLegends) =>
       /\ Len(call.log) = Len(Val(config.remoteLegends))
       /\ Cardinality(RemoteImages(call.svg))
            = Cardinality({k \in 1..Len(call.log) : call.log[k].ok})

\* C4: an icon's rejection draws nothing for its item and does not leave
\* renderLegendItem; the later items, legends and remote legends are still
\* placed, and render() resolves.
C4_RejectionIsolated ==
  /\ [][IconRejected => /\ calls'[1].svg = call.svg
                        /\ calls'[1].pc = "items"
                        /\ calls'[1].error = None]_vars
  /\ [](SomeIconRejected =>
          /\ call.pc # "rejected"
          /\ C4_GroupsAsSettled
          /\ call.pc # "resolved" => ENABLED Next
          /\ call.pc = "resolved" => C4_AllPlaced)

\* render() has resolved although the first of two icons was rejected and a
\* remote legend followed.
C4_Witness ==
  /\ call.pc = "resolved"
  /\ Len(call.icons) >= 2 /\ call.icons[1] = "rejected" /\ call.icons[2] = "fulfilled"
  /\ Cardinality(RemoteImages(call.svg)) >= 1

-----------------------------------------------------------------------------
(* C5 *)

RECURSIVE PlaceAll(_, _, _, _)
PlaceAll(cfg, svg, pos, entries) ==
  IF entries = <<>> THEN [svg |-> svg, position |-> pos]
  ELSE LET placed == PlaceImage(cfg, svg, pos, [url |-> "u", title |-> entries[1].title],
                                entries[1])
       IN  PlaceAll(cfg, placed.svg, placed.position, Tail(entries))

From(seq, n) == SubSeq(seq, n + 1, Len(seq))

\* The frame and the cursor that the fetched, non-failing references give when
\* they are placed alone, from the entry of renderImages on.
C5_WithoutFailures ==
  LET Ok(e) == e.ok
      start == [call.svg EXCEPT !.children = SubSeq(@, 1, call.entry.children)]
  IN  PlaceAll(config, start, call.entry.position, SelectSeq(call.log, Ok))

\* C5: a failing reference leaves the cursor and the frame as they are and
\* does not leave renderImages; the others are placed in order and stacked as
\* if the failing ones were not in the list.
C5_FailuresSkipped ==
  /\ [][(ImageFetched /\ ~Last(calls'[1].log).ok) =>
          /\ calls'[1].svg = call.svg
          /\ calls'[1].position = call.position
          /\ calls'[1].pc = "images"
          /\ calls'[1].r = call.r + 1
          /\ calls'[1].error = None]_vars
  /\ []((call.pc \in {"images", "shorten", "fit", "resolved"} /\ IsSome(config.remoteLegends)) =>
          /\ From(call.svg.children, call.entry.children)
               = From(C5_WithoutFailures.svg.children, call.entry.children)
          /\ call.position = C5_WithoutFailures.position
          /\ call.pc # "images" => Len(call.log) = Len(Val(config.remoteLegends)))

\* Of three references the second failed and the third was placed.
C5_Witness ==
  /\ call.pc = "shorten"
  /\ Len(call.log) = 3
  /\ call.log[1].ok /\ ~call.log[2].ok /\ call.log[3].ok

-----------------------------------------------------------------------------
(* C6 *)

C6_Case ==
  /\ ImageFetched /\ Last(calls'[1].log).ok
  /\ config.overflow = Some("auto") /\ Paginated

\* C6: with overflow "auto" and both limits set, a remote image of height h
\* with rowY + h + 25 > maxColumnHeight is drawn at x = columnX +
\* maxColumnWidth and y = 25 with a title, 0 without; otherwise the column
\* does not change.
C6_ImageBreaksColumn ==
  [][C6_Case =>
       LET image == Last(calls'[1].svg.children)
           h == Last(calls'[1].log).height
           titled == Val(config.remoteLegends)[call.r].title # ""
       IN  /\ image.tag = "svg:image" /\ image.h = h
           /\ IF call.position[2] + h + 25 > Val(config.maxColumnHeight)
              THEN /\ image.x = call.position[1] + Val(config.maxColumnWidth)
                   /\ image.y = IF titled THEN 25 ELSE 0
              ELSE /\ image.x = call.position[1]
                   /\ image.y = call.position[2] + (IF titled THEN 25 ELSE 0)
                   /\ calls'[1].position[1] = call.position[1]]_vars

\* A titled remote image at the top of a later column.
C6_Witness ==
  /\ config.overflow = Some("auto") /\ Paginated
  /\ call.pc = "images" /\ call.log # <<>> /\ Last(call.log).ok
  /\ Last(call.svg.children).tag = "svg:image"
  /\ Last(call.svg.children).x > 0
  /\ Last(call.svg.children).y = 25

-----------------------------------------------------------------------------
(* C9 *)

\* The rowY that the placements add up to when no column ever breaks.
C9_Accumulated ==
  titleHeight * Cardinality({k \in 1..Len(call.legends) : call.legends[k].title # ""})
    + (iconHeight + itemSpacing)
        * Cardinality({k \in 1..Len(call.icons) : call.icons[k] = "fulfilled"})
    + SumUnits([k \in 1..Len(call.log) |->
                  IF call.log[k].ok
                  THEN call.log[k].height
                         + (IF call.log[k].title # "" THEN legendSpacing + titleSpacing ELSE 0)
                  ELSE 0])

\* C9: when render() resolves, the frame's height and its viewBox height are
\* the accumulated rowY if maxColumnHeight is unset, and the frame has the
\* configured size if it is set.
C9_FrameHeight ==
  call.pc = "resolved" =>
    IF ~IsSome(config.maxColumnHeight)
    THEN /\ call.svg.height = call.position[2]
         /\ call.svg.viewBox = <<0, 0, config.size[1], call.position[2]>>
         /\ call.position[2] = C9_Accumulated
         /\ call.svg.width = config.size[1]
    ELSE /\ call.svg.height = config.size[2]
         /\ call.svg.width = config.size[1]
         /\ call.svg.viewBox = <<0, 0, config.size[1], config.size[2]>>

\* A resolved render whose frame was fitted to a title, an item and an image.
C9_Witness ==
  /\ call.pc = "resolved" /\ ~IsSome(config.maxColumnHeight)
  /\ call.svg.height = 20 + 35 + 25 + 40

-----------------------------------------------------------------------------
(* C10 *)

C10_Outcome ==
  LET tr == Val(call.icon.tr)
      errors == IF IsSome(tr.errors) THEN Val(tr.errors) ELSE <<>>
  IN  IF ~tr.rejects /\ Len(errors) > 0
      THEN [state |-> "rejected", value |-> Some(errors[1])]
      ELSE IF ~tr.rejects /\ ~tr.throws
      THEN [state |-> "fulfilled", value |-> Some(DataUri)]
      ELSE [state |-> "rejected", value |-> None]

\* C10: getRuleIcon's promise is settled once; with translator errors it ends
\* rejected with errors[0] whatever the later code does, without errors and
\* without a throw it is fulfilled with the data URI, and with another throw
\* it is rejected without a payload.
C10_IconPromise ==
  /\ [][(call.icon.promise.state # "pending" /\ calls'[1].icon.pc # "idle") =>
          calls'[1].icon.promise = call.icon.promise]_vars
  /\ [](call.icon.pc = "done" => call.icon.promise = C10_Outcome)
  /\ []((call.icon.pc \in {"draw", "resolve", "catch"} /\ Len(call.icon.errors) > 0) =>
          call.icon.promise = [state |-> "rejected", value |-> Some(call.icon.errors[1])])

\* The translator reported errors and the drawing threw afterwards: reject()
\* was called on the rejected promise.
C10_Witness ==
  /\ call.icon.pc = "done"
  /\ Val(call.icon.tr).errors = Some(<<"e1", "e2">>) /\ Val(call.icon.tr).throws
  /\ call.icon.promise = [state |-> "rejected", value |-> Some("e1")]

-----------------------------------------------------------------------------
(* C7 *)

\* The node that shortenLabels is at, its label, and the title it was given.
FitGroup == call.svg.children[ItemNodes(call.svg)[call.node]]
FitOriginal == RuleItems(call.legends)[call.node].title

\* The loop has ended for a node it has shortened: lines 161-165 run.
Shortened == call.pc = "fit" /\ calls'[1].pc = "shorten" /\ call.adapted

C7_Final == LabelOf(calls'[1].svg.children[ItemNodes(call.svg)[call.node]])

\* C7 as stated: after k >= 1 removals from a label of length L, the final
\* text has L - k characters: the first L - k - 3 of the original and "...",
\* also when fewer than 3 characters remain.
C7_LengthKept ==
  [][Shortened =>
       LET n == Len(LabelOf(FitGroup))
       IN  /\ n < Len(FitOriginal)
           /\ Len(C7_Final) = n
           /\ C7_Final = SubSeq(FitOriginal, 1, n - 3) \o "..."]_vars

\* C7 as amended: the final text is the first max(L - k - 3, 0) characters of
\* the original and "...": it has L - k characters when at least 3 remain
\* after the k removals, and is "..." (3 characters) when fewer remain.
C7_EllipsisOverKept ==
  [][Shortened =>
       LET n == Len(LabelOf(FitGroup))
       IN  /\ n < Len(FitOriginal)
           /\ LabelOf(FitGroup) = SubSeq(FitOriginal, 1, n)
           /\ C7_Final = SubSeq(FitOriginal, 1, Max(n - 3, 0)) \o "..."
           /\ Len(C7_Final) = Max(n, 3)
           /\ (n < 3 => C7_Final = "...")]_vars

\* "Roads1" was cut by one character and became "Ro...".
C7_Witness ==
  /\ call.pc = "shorten" /\ call.node = 2
  /\ RuleItems(call.legends)[1].title = "Roads1"
  /\ TextChild(call.svg.children[ItemNodes(call.svg)[1]]) # 0
  /\ LabelOf(call.svg.children[ItemNodes(call.svg)[1]]) = "Ro..."

-----------------------------------------------------------------------------
(* C8 *)

\* The width that is measured for an item group whose label is str.
WidthWithLabel(str) ==
  IF str = "" THEN iconWidth ELSE iconWidth + labelGap - 1 + CharWidth * Len(str)

\* C8: while and after shortenLabels runs, every placed label that fits
\* maxColumnWidth, and every placed label if maxColumnWidth is unset, has the
\* text of its item's title.
C8_FittingLabelsKept ==
  call.pc \in {"shorten", "fit", "resolved"} =>
    \A j \in 1..Len(ItemNodes(call.svg)) :
      LET group == call.svg.children[ItemNodes(call.svg)[j]]
          original == RuleItems(call.legends)[j].title
      IN  (/\ TextChild(group) # 0
           /\ \/ ~IsSome(config.maxColumnWidth)
              \/ WidthWithLabel(original) <= Val(config.maxColumnWidth))
            => LabelOf(group) = original

\* render() has resolved with maxColumnWidth unset and the label "Roads1",
\* and with maxColumnWidth 70 and the label "Ab".
C8_Witness ==
  /\ call.pc = "resolved"
  /\ \E j \in 1..Len(ItemNodes(call.svg)) :
       LET group == call.svg.children[ItemNodes(call.svg)[j]]
       IN  /\ TextChild(group) # 0
           /\ \/ ~IsSome(config.maxColumnWidth) /\ LabelOf(group) = "Roads1"
              \/ config.maxColumnWidth = Some(70) /\ LabelOf(group) = "Ab"

-----------------------------------------------------------------------------
(* C11 *)

ItemPlaced ==
  /\ call.pc = "icon" /\ call.icon.pc = "done" /\ call.icon.promise.state = "fulfilled"
  /\ calls'[1] # call

\* C11: in every step of one render() columnX does not decrease; a step that
\* increases it adds maxColumnWidth and resets rowY: to 0 before a legend
\* (whose title, if any, is drawn at the top and then adds 20) and before a
\* remote image (drawn at 0, or at 25 under its title), to 5 after an item;
\* a step that keeps columnX does not decrease rowY.
C11_CursorInvariant ==
  [][call.pc # "idle" =>
       LET p == call.position
           q == calls'[1].position
       IN  /\ q[1] >= p[1]
           /\ q[1] > p[1] =>
                /\ Paginated /\ q[1] = p[1] + Val(config.maxColumnWidth)
                /\ LegendPlaced \/ ItemPlaced \/ (ImageFetched /\ Last(calls'[1].log).ok)
                /\ LegendPlaced =>
                     IF call.legends[call.i].title # ""
                     THEN /\ q[2] = titleHeight
                          /\ Last(Last(calls'[1].svg.children).children).unit = "em"
                     ELSE q[2] = 0
                /\ ItemPlaced => q[2] = columnTop
                /\ ImageFetched =>
                     LET image == Last(calls'[1].svg.children)
                         titled == Val(config.remoteLegends)[call.r].title # ""
                     IN  /\ image.y = (IF titled THEN legendSpacing + titleSpacing ELSE 0)
                         /\ q[2] = image.y + image.h
           /\ q[1] = p[1] => q[2] >= p[2]]_vars

\* The column was broken after an item, and a legend then began in the new
\* column.
C11_Witness ==
  /\ Paginated
  /\ call.pc = "items" /\ call.i > 1 /\ call.item = 1
  /\ call.position[1] = Val(config.maxColumnWidth)
  /\ call.position[2] = columnTop + titleHeight

-----------------------------------------------------------------------------
(* C12 *)

C12_Configs == IF IsSome(config.configs) THEN Val(config.configs) ELSE <<>>
C12_Styles == IF IsSome(config.styles) THEN Val(config.styles) ELSE <<>>

\* C12: the legend list of render() is the configured entries in their
\* order, then one legend per style in the styles' order; a style's legend
\* has the style's name as its title ("" without a name) and one item per
\* rule, in the rules' order, with the rule's name as its title and the rule.
C12_LegendList ==
  call.pc # "idle" =>
    /\ Len(call.legends) = Len(C12_Configs) + Len(C12_Styles)
    /\ \A k \in 1..Len(C12_Configs) : call.legends[k] = C12_Configs[k]
    /\ \A k \in 1..Len(C12_Styles) :
         LET legend == call.legends[Len(C12_Configs) + k]
             style == C12_Styles[k]
         IN  /\ legend.title = style.name
             /\ IsSome(legend.items)
             /\ Len(Val(legend.items)) = Len(style.rules)
             /\ \A j \in 1..Len(style.rules) :
                  /\ Val(legend.items)[j].title = style.rules[j].name
                  /\ Val(legend.items)[j].rule = Some(style.rules[j])

\* Two configured legends "B", "A", a style without a name and a style "S"
\* with the rules "Bc", "A" gave a list of four legends.
C12_Witness ==
  /\ call.pc = "resolved"
  /\ Len(call.legends) = 4
  /\ call.legends[1].title = "B" /\ call.legends[2].title = "A"
  /\ call.legends[3].title = "" /\ call.legends[4].title = "S"
  /\ Len(Val(call.legends[4].items)) = 2
  /\ Val(call.legends[4].items)[1].title = "Bc"
  /\ Val(call.legends[4].items)[2].title = "A"

-----------------------------------------------------------------------------
(* C13 *)

Started(c) == calls[c].pc = "idle" /\ calls'[c].pc # "idle"
Settled(c) == calls[c].pc \in {"resolved", "rejected"}

\* C13: at every moment at most one frame is under the target; the start of
\* a render() leaves its own frame as the only one, and nothing but a start
\* changes what is attached: when all calls have settled, the frame under
\* the target is that of the call that started last.
C13_SingleFrame ==
  /\ [](Len(target) <= 1)
  /\ [][\A c \in Calls : Started(c) => target' = <<c>>]_vars
  /\ [][target' # target => \E c \in Calls : Started(c)]_vars
  /\ []((\E c \in Calls : calls[c].pc # "idle") => Len(target) = 1)

\* Both calls have settled and the frame of the second is under the target;
\* the second started before the first fitted its labels, so the first
\* measured a frame that was no longer attached and kept its label "A",
\* while the second cut its own.
C13_Witness ==
  /\ \A c \in Calls : Settled(c)
  /\ target = <<2>>
  /\ \E k \in 1..Len(calls[1].svg.children) :
       /\ calls[1].svg.children[k].class = "legend-item"
       /\ TextChild(calls[1].svg.children[k]) # 0
       /\ LabelOf(calls[1].svg.children[k]) = "A"
  /\ \E k \in 1..Len(calls[2].svg.children) :
       /\ calls[2].svg.children[k].class = "legend-item"
       /\ TextChild(calls[2].svg.children[k]) # 0
       /\ LabelOf(calls[2].svg.children[k]) = "..."

-----------------------------------------------------------------------------
(* C14 *)

\* The number of items with a rule before item number item of legend number i.
RuleItemsBefore(legends, i, item) ==
  Len(RuleItems(SubSeq(legends, 1, i - 1)))
    + (IF i <= Len(legends) /\ IsSome(legends[i].items)
       THEN Cardinality({j \in 1..(item - 1) : IsSome(Val(legends[i].items)[j].rule)})
       ELSE 0)

ItemStarted == call.pc = "items" /\ calls'[1].pc = "icon"
RemoteCount == IF IsSome(config.remoteLegends) THEN Len(Val(config.remoteLegends)) ELSE 0

\* C14: the steps of one render() are in one order.  An item starts when no
\* icon is in flight and every item with a rule before it has settled; a
\* legend starts when every item of the legends before it has settled; a
\* remote legend is fetched when all items have settled, and the remote
\* legends are taken one by one in the order of the list; the cursor is
\* written by these steps alone; shortenLabels runs, and render() resolves,
\* when all items and all remote legends are done, and render() resolves when
\* every item group was fitted.
C14_TotalOrder ==
  /\ [][ItemStarted =>
          /\ call.icon = IdleIcon
          /\ Len(call.icons) = RuleItemsBefore(call.legends, call.i, call.item)]_vars
  /\ [][LegendPlaced =>
          /\ call.icon = IdleIcon
          /\ Len(call.icons) = RuleItemsBefore(call.legends, call.i, 1)
          /\ call.log = <<>>]_vars
  /\ [][ImageFetched =>
          /\ call.i > Len(call.legends)
          /\ Len(call.icons) = Len(RuleItems(call.legends))
          /\ call.r = Len(call.log) + 1
          /\ Last(calls'[1].log).title = Val(config.remoteLegends)[Len(call.log) + 1].title]_vars
  /\ [][(call.pc # "idle" /\ calls'[1].position # call.position) =>
          call.pc = "legends" \/ ItemPlaced \/ ImageFetched]_vars
  /\ [](call.pc \in {"shorten", "fit", "resolved"} =>
          /\ Len(call.icons) = Len(RuleItems(call.legends))
          /\ Len(call.log) = RemoteCount
          /\ call.icon = IdleIcon)
  /\ [](call.pc = "resolved" => call.node = Len(ItemNodes(call.svg)) + 1)

\* render() has resolved after an item of the first legend, a second legend
\* and a remote legend.
C14_Witness ==
  /\ call.pc = "resolved"
  /\ Len(call.legends) = 2 /\ Len(call.icons) = 1 /\ Len(call.log) = 1
  /\ IsSome(call.legends[1].items) /\ Len(Val(call.legends[1].items)) = 1

-----------------------------------------------------------------------------
(* C15 *)

\* C15: with maxColumnHeight = H >= 55 and maxColumnWidth set, under every
\* overflow policy, every icon is drawn with its whole box inside the column
\* height: rowY + 30 <= H when the icon is drawn.
C15_IconsWithinHeight ==
  [][(ItemPlaced /\ Paginated /\ Val(config.maxColumnHeight) >= 55) =>
       /\ call.position[2] + iconHeight <= Val(config.maxColumnHeight)
       /\ \A p \in IconImages(calls'[1].svg) :
            At(calls'[1].svg, p).y + At(calls'[1].svg, p).h
              <= Val(config.maxColumnHeight)]_vars

-----------------------------------------------------------------------------
(* C16 *)

\* What the then-callback has added to the item's group.
C16_Drawn ==
  LET before == call.svg.children[call.container].children
      after == calls'[1].svg.children[call.container].children
  IN  SubSeq(after, Len(before) + 1, Len(after))

C16_Box(e, tag, x, y) ==
  e.tag = tag /\ e.x = x + 1 /\ e.y = y /\ e.w = 45 /\ e.h = 30

\* C16: an item whose icon succeeded is drawn at the cursor (x, y): the
\* rectangle, unless hideRect, and the image at (x + 1, y) with size 45 x 30,
\* the label at (x + 50, y + 20); then rowY = y + 35, and if maxColumnHeight
\* is set and y + 35 + 35 >= maxColumnHeight the cursor becomes
\* (x + maxColumnWidth, 5), under every overflow policy; otherwise columnX
\* is unchanged.
C16_ItemPlacement ==
  [][ItemPlaced =>
       LET x == call.position[1]
           y == call.position[2]
           drawn == C16_Drawn
           n == Len(drawn)
       IN  /\ n = (IF config.hideRect THEN 2 ELSE 3)
           /\ ~config.hideRect => C16_Box(drawn[1], "rect", x, y)
           /\ C16_Box(drawn[n - 1], "image", x, y)
           /\ drawn[n - 1].href = DataUri
           /\ drawn[n].tag = "text" /\ drawn[n].text = CurrentItem(call).title
           /\ drawn[n].x = x + 50 /\ drawn[n].y = y + 20
           /\ Len(calls'[1].svg.children) = Len(call.svg.children)
           /\ IF IsSome(config.maxColumnHeight) /\ y + 35 + 35 >= Val(config.maxColumnHeight)
              THEN calls'[1].position = <<x + Val(config.maxColumnWidth), 5>>
              ELSE calls'[1].position = <<x, y + 35>>]_vars

\* With maxColumnHeight 100, the second item of a legend was drawn with its
\* rectangle at rowY 55 and the cursor went to the top of the next column.
C16_Witness ==
  /\ config.maxColumnHeight = Some(100) /\ ~config.hideRect
  /\ call.pc = "items" /\ call.item = 3
  /\ call.position = <<Val(config.maxColumnWidth), 5>>
  /\ \E p \in Rects(call.svg) : At(call.svg, p).y = 55 /\ At(call.svg, p).x = 1

-----------------------------------------------------------------------------
(* C17 *)

\* C17: if maxColumnHeight is unset, columnX is 0 in every state of
\* render(), whatever overflow and maxColumnWidth are, and everything is
\* drawn in the first column.
C17_SingleColumn ==
  ~IsSome(config.maxColumnHeight) =>
    /\ call.position[1] = 0
    /\ \A p \in Places(call.svg) :
         At(call.svg, p).x \in {0, 1, iconWidth + labelGap}

\* Without maxColumnHeight, with maxColumnWidth and overflow "auto": a title,
\* two items and a titled image of height 40 are stacked in one column.
C17_Witness ==
  /\ ~IsSome(config.maxColumnHeight) /\ IsSome(config.maxColumnWidth)
  /\ config.overflow = Some("auto")
  /\ call.pc = "resolved"
  /\ call.position = <<0, 155>>

-----------------------------------------------------------------------------
(* C18 *)

ItemWithoutRule ==
  /\ call.pc = "items" /\ call.item <= Len(Val(call.legends[call.i].items))
  /\ ~IsSome(CurrentItem(call).rule)
  /\ calls'[1] # call

\* C18: renderLegendItem for an item without a rule adds nothing to the
\* frame and leaves the cursor as it is; the chain goes on to the next item.
C18_NoRuleNoOutput ==
  [][ItemWithoutRule =>
       /\ calls'[1].svg = call.svg
       /\ calls'[1].position = call.position
       /\ calls'[1].pc = "items" /\ calls'[1].item = call.item + 1
       /\ calls'[1].icons = call.icons]_vars

\* An item without a rule was passed, and the item after it was drawn at the
\* place the cursor had before both.
C18_Witness ==
  /\ call.pc = "items" /\ call.i = 1 /\ call.item = 3
  /\ ~IsSome(Val(call.legends[1].items)[1].rule)
  /\ IsSome(Val(call.legends[1].items)[2].rule)
  /\ call.legends[1].title = ""
  /\ call.icons = <<"fulfilled">>
  /\ Len(ItemNodes(call.svg)) = 1
  /\ \E p \in IconImages(call.svg) : At(call.svg, p).y = 0

-----------------------------------------------------------------------------
(* C19 *)

\* C19: for every placed item group and every maxColumnWidth, the loop of
\* shortenLabels does not go on once the label is empty: when the label of
\* the node being fitted is empty, the measured width is not above
\* maxColumnWidth, and the loop ends.
C19_FitterTerminates ==
  (call.pc = "fit" /\ TextChild(FitGroup) # 0 /\ LabelOf(FitGroup) = "") =>
    ~GreaterThan(call.width, config.maxColumnWidth)

-----------------------------------------------------------------------------
(* C20 *)

\* Where the elements of a frame are: the frame without its texts.
Coordinates(svg) ==
  LET Box(e) == [tag |-> e.tag, x |-> e.x, y |-> e.y, unit |-> e.unit, w |-> e.w,
                 h |-> e.h]
  IN  [k \in 1..Len(svg.children) |->
         [box |-> Box(svg.children[k]),
          inner |-> [j \in 1..Len(svg.children[k].children) |->
                       Box(svg.children[k].children[j])]]]

\* One render() run alone from state st to the end of its placements, its
\* icons settling as in icons and its remote legends fetched as in log.
RECURSIVE Alone(_, _, _, _)
Alone(cfg, st, icons, log) ==
  CASE st.pc = "legends" /\ st.i <= Len(st.legends) ->
         Alone(cfg, renderLegend(cfg, st), icons, log)
    [] st.pc = "legends" /\ st.i > Len(st.legends) ->
         IF IsSome(cfg.remoteLegends)
         THEN Alone(cfg, [st EXCEPT !.pc = "images", !.r = 1], icons, log)
         ELSE st
    [] st.pc = "items" /\ st.item > Len(Val(st.legends[st.i].items)) ->
         Alone(cfg, [st EXCEPT !.i = @ + 1, !.item = 0, !.pc = "legends"], icons, log)
    [] st.pc = "items" /\ st.item <= Len(Val(st.legends[st.i].items)) ->
         LET begun == renderLegendItem(st, CHOOSE tr \in TranslatorResults : TRUE)
             done == [begun EXCEPT !.icon.promise =
                                     [state |-> "fulfilled", value |-> Some(DataUri)]]
         IN  IF ~IsSome(CurrentItem(st).rule) THEN Alone(cfg, begun, icons, log)
             ELSE IF icons = <<>> THEN st
             ELSE Alone(cfg, IF icons[1] = "fulfilled" THEN ItemDrawn(cfg, done)
                             ELSE ItemSkipped(cfg, begun),
                        Tail(icons), log)
    [] st.pc = "images" /\ st.r <= Len(Val(cfg.remoteLegends)) /\ log # <<>> ->
         Alone(cfg, renderImage(cfg, st, [ok |-> log[1].ok, stage |-> "done",
                                          height |-> log[1].height,
                                          width |-> log[1].width]),
               icons, Tail(log))
    [] OTHER -> st

PlacementsDone(c) == calls[c].pc \in {"shorten", "fit", "resolved"}

\* C20: each of two render() calls on one LegendRenderer, in whatever order
\* their steps run, starts with an empty frame and the cursor (0, 0); a step
\* of one call leaves the other call's cursor and frame as they are; and
\* when a call has placed everything, its cursor and the coordinates of all
\* it has drawn are those of the same call run alone.
C20_OwnCursor ==
  /\ [][\A c \in Calls : Started(c) =>
          /\ calls'[c].position = <<0, 0>>
          /\ calls'[c].svg.children = <<>>]_vars
  /\ [][\A c \in Calls : calls'[c] # calls[c] =>
          \A d \in Calls \ {c} : calls'[d] = calls[d]]_vars
  /\ [](\A c \in Calls : PlacementsDone(c) =>
          LET alone == Alone(config, RenderBegin(config), calls[c].icons, calls[c].log)
          IN  /\ calls[c].position = alone.position
              /\ Coordinates(calls[c].svg) = Coordinates(alone.svg))

\* Both calls have resolved after two items each and a column break, the
\* first with a failed image and the second with an image of height 40; the
\* second started before the first had fitted its labels.
C20_Witness ==
  /\ \A c \in Calls : calls[c].pc = "resolved"
  /\ config.maxColumnHeight = Some(100)
  /\ \A c \in Calls : calls[c].icons = <<"fulfilled", "fulfilled">>
  /\ calls[1].position = <<55, 5>>
  /\ calls[2].position = <<55, 70>>
  /\ \A k \in 1..Len(calls[1].svg.children) :
       (calls[1].svg.children[k].class = "legend-item") =>
         LabelOf(calls[1].svg.children[k]) = "A"

====
